---- MODULE Spec2Model ----
(***************************************************************************)
(* Model of src/mainapp.py, the PDF job traveler processor:                *)
(*   prompt_claude      the Extractor (one request to the service)         *)
(*   sanitize_filename  the filename sanitizer                             *)
(*   process_pdfs       the batch loop: save, extract, sleep, rename, zip  *)
(*   results_data       the result table built from process_pdfs' results  *)
(* Python strings that the code takes apart (file names, field values) are *)
(* sequences of one-character strings; strings the code only builds and    *)
(* compares (status texts, dictionary keys) are TLA+ strings.              *)
(***************************************************************************)
EXTENDS Integers, Sequences, FiniteSets, TLC

\* ------------------------------------------------------------- bounds
MaxFiles == 2        \* files of one batch
LongLen == 231       \* length of the long Description value
MaxPrefix == 1       \* free characters in front of a sanitizer input

\* ------------------------------------------------- program constants
MaxNameLen == 240    \* sanitize_filename: if len(filename) > 240
SleepSeconds == 4    \* process_pdfs: time.sleep(4)

\* -------------------------------------------------------- variables
VARIABLES
    platform,        \* "posix" or "windows": decides Path.rename onto an existing file
    uploaded_files,  \* the argument of process_pdfs: sequence of [name, data]
    pc,              \* position of the single thread of control
    i,               \* number of the file the for loop is at (1-based), 0 before
    temp_dir,        \* the TemporaryDirectory: file name -> data
    zip_file,        \* entries written to the ZipFile, in order
    results,         \* process_pdfs' results list
    extracted_data,  \* what prompt_claude returned for the current file
    requests,        \* client.messages.create calls of the current prompt_claude call
    clock,           \* elapsed time
    calls,           \* history: prompt_claude calls, [file, at]
    returned,        \* history: prompt_claude returns, [outcome, requests, value, text]
    recorded_at,     \* history: clock at each results.append
    results_data,    \* the table rows built by the caller
    filename,        \* sanitizer harness: the input
    sanitized,       \* sanitizer harness: sanitize_filename(filename)
    resanitized      \* sanitizer harness: sanitize_filename(sanitized)

batch_vars == <<platform, uploaded_files, pc, i, temp_dir, zip_file, results,
                extracted_data, requests, clock, calls, returned, recorded_at,
                results_data>>
san_vars == <<filename, sanitized, resanitized>>
vars == <<platform, uploaded_files, pc, i, temp_dir, zip_file, results,
          extracted_data, requests, clock, calls, returned, recorded_at,
          results_data, filename, sanitized, resanitized>>

\* ---------------------------------------------------------- strings
Unknown == <<"U", "n", "k", "n", "o", "w", "n">>
DotPdf == <<".", "p", "d", "f">>
Space == <<" ">>
NA == <<"N", "/", "A">>
Pad(n) == [k \in 1..n |-> "x"]

\* sanitize_filename: invalid_chars
invalid_chars == <<"<", ">", ":", "\"", "/", "\\", "|", "?", "*">>

\* str.replace(char, by) for a one-character pattern
str_replace(s, char, by) == [k \in 1..Len(s) |-> IF s[k] = char THEN by ELSE s[k]]

\* for char in invalid_chars: filename = filename.replace(char, '_')
RECURSIVE replace_each(_, _)
replace_each(name, chars) ==
    IF chars = <<>> THEN name
    ELSE replace_each(str_replace(name, Head(chars), "_"), Tail(chars))

\* sanitize_filename with the backslash left out of invalid_chars
sanitize_filename_no_backslash(name) ==
    LET replaced == replace_each(name, SelectSeq(invalid_chars, LAMBDA c : c # "\\"))
    IN  IF Len(replaced) > MaxNameLen THEN SubSeq(replaced, 1, MaxNameLen)
        ELSE replaced

sanitize_filename(name) ==
    LET replaced == replace_each(name, invalid_chars)
    IN  IF Len(replaced) > MaxNameLen THEN SubSeq(replaced, 1, MaxNameLen)
        ELSE replaced

\* ', '.join(parts) over TLA+ strings
RECURSIVE join(_, _)
join(parts, sep) ==
    IF parts = <<>> THEN ""
    ELSE IF Len(parts) = 1 THEN parts[1]
    ELSE parts[1] \o sep \o join(Tail(parts), sep)

\* ------------------------------------------------------ JSON values
required_fields == <<"Customer", "Part Number", "Description">>

EmptyMap == [k \in {} |-> <<>>]
EmptyDict == [kind |-> "object", map |-> EmptyMap]

\* a field of a reply: <<>> when the key is absent, <<value>> when present
Absent == <<>>
Present(value) == <<value>>
Cust == Present(<<"A", "/", "C">>)
Part == Present(<<"P", "N">>)
Desc == Present(<<"B", ":">>)
LongDesc == Present(Pad(LongLen))
Empty == Present(<<>>)

MkMap(c, p, d) ==
    [k \in {f \in {"Customer", "Part Number", "Description"} :
              \/ f = "Customer" /\ c # Absent
              \/ f = "Part Number" /\ p # Absent
              \/ f = "Description" /\ d # Absent}
       |-> IF k = "Customer" THEN c[1] ELSE IF k = "Part Number" THEN p[1] ELSE d[1]]

\* replies that are JSON objects: every subset of the three fields missing, each
\* field missing by absence and by emptiness, a long value, a foreign key only
ObjectMaps ==
    {MkMap(Cust, Part, Desc), MkMap(Cust, Part, LongDesc),
     MkMap(Absent, Part, Desc), MkMap(Empty, Part, Desc),
     MkMap(Cust, Absent, Desc), MkMap(Cust, Empty, Desc),
     MkMap(Cust, Part, Absent), MkMap(Cust, Part, Empty),
     MkMap(Absent, Empty, Desc), MkMap(Empty, Part, Absent),
     MkMap(Cust, Absent, Empty), MkMap(Absent, Part, LongDesc),
     MkMap(Empty, Empty, Empty), MkMap(Absent, Absent, Absent),
     [k \in {"Notes"} |-> <<"n">>]}

JsonObjects == {[kind |-> "object", map |-> m] : m \in ObjectMaps}
JsonNonObjects ==
    {[kind |-> "array", items |-> <<>>], [kind |-> "array", items |-> <<"Customer">>],
     [kind |-> "string", s |-> <<>>], [kind |-> "string", s |-> <<"n", "o">>],
     [kind |-> "number", n |-> 0], [kind |-> "number", n |-> 7],
     [kind |-> "null"]}
JsonValues == JsonObjects \cup JsonNonObjects

\* message.content[0].text: text that is JSON (given by the value it denotes) or not
ResponseTexts == {[json |-> FALSE]} \cup {[json |-> TRUE, value |-> v] : v \in JsonValues}

\* json.loads(text): the value, or JSONDecodeError
json_loads(text) ==
    IF text.json THEN [ok |-> TRUE, value |-> text.value] ELSE [ok |-> FALSE]

\* Python truth value of a json.loads result (the test of "if not extracted_data")
truthy(v) ==
    CASE v.kind = "object" -> DOMAIN v.map # {}
      [] v.kind = "array" -> v.items # <<>>
      [] v.kind = "string" -> v.s # <<>>
      [] v.kind = "number" -> v.n # 0
      [] OTHER -> FALSE

\* -------------------------------------------------- process_pdfs parts
Range(seq) == {seq[k] : k \in 1..Len(seq)}

\* missing_fields that tests only "field not in extracted_data"
missing_fields_absent_only(map) ==
    SelectSeq(required_fields, LAMBDA field : field \notin DOMAIN map)

\* [field for field in required_fields
\*    if field not in extracted_data or not extracted_data[field]]  (a dict)
missing_fields(map) ==
    SelectSeq(required_fields, LAMBDA field : field \notin DOMAIN map \/ map[field] = <<>>)

\* The same lines on a truthy value that is no dict raise TypeError: a number or
\* boolean at "field not in"; a list or str holding the field name at
\* extracted_data[field]; any other list or str at extracted_data[field] = "Unknown".
field_check_raises(v) == v.kind # "object"

\* for field in missing_fields: extracted_data[field] = "Unknown"
fill_unknown(map, missing) ==
    [k \in DOMAIN map \cup Range(missing) |->
        IF k \in Range(missing) THEN Unknown ELSE map[k]]

\* f"{extracted_data['Part Number']} {extracted_data['Customer']}
\*    {extracted_data['Description']}.pdf", then sanitize_filename
new_filename(map) ==
    sanitize_filename(map["Part Number"] \o Space \o map["Customer"] \o Space
                      \o map["Description"] \o DotPdf)

NoDataStatus == "Error: No data extracted"

\* "Success" if not missing_fields else f"Partial success (missing: {', '.join(..)})"
status_of(missing) ==
    IF missing = <<>> THEN "Success"
    ELSE "Partial success (missing: " \o join(missing, ", ") \o ")"

\* open(path, "wb").write(data): creates or overwrites
write_file(dir, name, data) ==
    [n \in DOMAIN dir \cup {name} |-> IF n = name THEN data ELSE dir[n]]

\* Path.rename where the platform replaces an existing target
rename_file(dir, src, dst) ==
    [n \in (DOMAIN dir \ {src}) \cup {dst} |-> IF n = dst THEN dir[src] ELSE dir[n]]

\* Path.rename raises FileExistsError on Windows when the target exists
rename_raises(os, dir, dst) == os = "windows" /\ dst \in DOMAIN dir

\* error_info with new_name defaulting to the original name
error_info_keeps_name(file, data) ==
    [original_name |-> file.name, extracted_data |-> data, new_name |-> file.name,
     status |-> "Error: No data extracted"]

\* the result_info appended on the "no data" path
error_info(file, data) ==
    [original_name |-> file.name, extracted_data |-> data, new_name |-> <<>>,
     status |-> NoDataStatus]

\* the result_info appended after rename and archive; extracted_data is the
\* dict object prompt_claude returned, as it is after the "Unknown" assignments
success_info(file, map, missing, name) ==
    [original_name |-> file.name,
     extracted_data |-> [kind |-> "object", map |-> map],
     new_name |-> name,
     status |-> status_of(missing)]

\* one row of results_data; dict.get(key, "")
dict_get(map, key) == IF key \in DOMAIN map THEN map[key] ELSE <<>>
results_row(result) ==
    [original |-> result.original_name,
     new |-> IF result.new_name # <<>> THEN result.new_name ELSE NA,
     status |-> result.status,
     customer |-> dict_get(result.extracted_data.map, "Customer"),
     part_number |-> dict_get(result.extracted_data.map, "Part Number"),
     description |-> dict_get(result.extracted_data.map, "Description")]

\* ------------------------------------------------------------ inputs
\* uploads: names all different or all the same; the data of file k is k
FileName(k) == <<"j", "o", "b">> \o [d \in 1..k |-> "i"] \o DotPdf
FileLists ==
    UNION {{[k \in 1..n |-> [name |-> FileName(k), data |-> k]],
            [k \in 1..n |-> [name |-> FileName(1), data |-> k]]} : n \in 0..MaxFiles}

\* ------------------------------------------------------------- Init
Init ==
    /\ platform \in {"posix", "windows"}
    /\ uploaded_files \in FileLists
    /\ pc = "start"
    /\ i = 0
    /\ temp_dir = EmptyMap
    /\ zip_file = <<>>
    /\ results = <<>>
    /\ extracted_data = EmptyDict
    /\ requests = 0
    /\ clock = 0
    /\ calls = <<>>
    /\ returned = <<>>
    /\ recorded_at = <<>>
    /\ results_data = <<>>
    /\ filename = <<>>
    /\ sanitized = <<>>
    /\ resanitized = <<>>

\* ---------------------------------------------------------- actions
\* process_pdfs: "if not uploaded_files: ... return None"
EmptyInput ==
    /\ pc = "start"
    /\ uploaded_files = <<>>
    /\ pc' = "returned_none"
    /\ UNCHANGED <<platform, uploaded_files, i, temp_dir, zip_file, results,
                   extracted_data, requests, clock, calls, returned, recorded_at,
                   results_data>>
    /\ UNCHANGED san_vars

\* process_pdfs: temporary directory, zip file, results = []
Start ==
    /\ pc = "start"
    /\ uploaded_files # <<>>
    /\ pc' = "loop"
    /\ UNCHANGED <<platform, uploaded_files, i, temp_dir, zip_file, results,
                   extracted_data, requests, clock, calls, returned, recorded_at,
                   results_data>>
    /\ UNCHANGED san_vars

\* the for loop takes the next file, saves it and calls prompt_claude
BeginFile ==
    /\ pc = "loop"
    /\ i < Len(uploaded_files)
    /\ i' = i + 1
    /\ temp_dir' = write_file(temp_dir, uploaded_files[i + 1].name,
                              uploaded_files[i + 1].data)
    /\ calls' = Append(calls, [file |-> i + 1, at |-> clock])
    /\ requests' = 0
    /\ pc' = "read"
    /\ UNCHANGED <<platform, uploaded_files, zip_file, results, extracted_data,
                   clock, returned, recorded_at, results_data>>
    /\ UNCHANGED san_vars

\* prompt_claude returns value
prompt_return(outcome, n, value, text) ==
    /\ extracted_data' = value
    /\ requests' = n
    /\ returned' = Append(returned, [outcome |-> outcome, requests |-> n,
                                     value |-> value, text |-> text])
    /\ pc' = "sleep"
    /\ UNCHANGED <<platform, uploaded_files, i, temp_dir, zip_file, results,
                   clock, calls, recorded_at, results_data>>
    /\ UNCHANGED san_vars

\* prompt_claude: pdf_file.read() raises; "except Exception: ... return {}"
ReadFailure ==
    /\ pc = "read"
    /\ prompt_return("read_error", requests, EmptyDict, [json |-> FALSE])

\* prompt_claude: the file is read and encoded
ReadOk ==
    /\ pc = "read"
    /\ pc' = "request"
    /\ UNCHANGED <<platform, uploaded_files, i, temp_dir, zip_file, results,
                   extracted_data, requests, clock, calls, returned, recorded_at,
                   results_data>>
    /\ UNCHANGED san_vars

\* prompt_claude: client.messages.create raises; "except Exception: ... return {}"
ApiError ==
    /\ pc = "request"
    /\ prompt_return("api_error", requests + 1, EmptyDict, [json |-> FALSE])

\* on_response without the JSONDecodeError handler: the error leaves prompt_claude
on_response_unhandled(text) ==
    LET parsed == json_loads(text)
    IN  IF parsed.ok
        THEN prompt_return("ok", requests + 1, parsed.value, text)
        ELSE /\ pc' = "raised"
             /\ requests' = requests + 1
             /\ UNCHANGED <<platform, uploaded_files, i, temp_dir, zip_file, results,
                            extracted_data, clock, calls, returned, recorded_at,
                            results_data>>
             /\ UNCHANGED san_vars

\* prompt_claude: the service answers; json.loads of the text
\* ("except json.JSONDecodeError: ... return {}")
on_response(text) ==
    LET parsed == json_loads(text)
    IN  IF parsed.ok
        THEN prompt_return("ok", requests + 1, parsed.value, text)
        ELSE prompt_return("json_error", requests + 1, EmptyDict, text)

ApiResponse ==
    /\ pc = "request"
    /\ \E text \in ResponseTexts : on_response(text)

\* Sleep placed after the "no data" check: no delay after an empty record
SleepOnDataOnly ==
    /\ pc = "sleep"
    /\ clock' = IF truthy(extracted_data) THEN clock + SleepSeconds ELSE clock
    /\ pc' = "check"
    /\ UNCHANGED <<platform, uploaded_files, i, temp_dir, zip_file, results,
                   extracted_data, requests, calls, returned, recorded_at,
                   results_data>>
    /\ UNCHANGED san_vars

\* process_pdfs: time.sleep(4)
Sleep ==
    /\ pc = "sleep"
    /\ clock' = clock + SleepSeconds
    /\ pc' = "check"
    /\ UNCHANGED <<platform, uploaded_files, i, temp_dir, zip_file, results,
                   extracted_data, requests, calls, returned, recorded_at,
                   results_data>>
    /\ UNCHANGED san_vars

\* NoData that continues without results.append
NoDataNotRecorded ==
    /\ pc = "check"
    /\ ~truthy(extracted_data)
    /\ pc' = "loop"
    /\ UNCHANGED <<platform, uploaded_files, i, temp_dir, zip_file, results,
                   extracted_data, requests, clock, calls, returned, recorded_at,
                   results_data>>
    /\ UNCHANGED san_vars

\* process_pdfs: "if not extracted_data: ... results.append(result_info); continue"
NoData ==
    /\ pc = "check"
    /\ ~truthy(extracted_data)
    /\ results' = Append(results, error_info(uploaded_files[i], extracted_data))
    /\ recorded_at' = Append(recorded_at, clock)
    /\ pc' = "loop"
    /\ UNCHANGED <<platform, uploaded_files, i, temp_dir, zip_file, extracted_data,
                   requests, clock, calls, returned, results_data>>
    /\ UNCHANGED san_vars

\* process_pdfs: the field check on a truthy non-dict raises TypeError
FieldTypeError ==
    /\ pc = "check"
    /\ truthy(extracted_data)
    /\ field_check_raises(extracted_data)
    /\ pc' = "raised"
    /\ UNCHANGED <<platform, uploaded_files, i, temp_dir, zip_file, results,
                   extracted_data, requests, clock, calls, returned, recorded_at,
                   results_data>>
    /\ UNCHANGED san_vars

\* rename_and_archive that adds only complete files to the zip
rename_and_archive_complete_only(file, map) ==
    LET missing == missing_fields(map)
        filled == fill_unknown(map, missing)
        name == new_filename(filled)
    IN  /\ extracted_data' = [kind |-> "object", map |-> filled]
        /\ IF rename_raises(platform, temp_dir, name)
           THEN /\ pc' = "raised"
                /\ UNCHANGED <<temp_dir, zip_file, results, recorded_at>>
           ELSE /\ temp_dir' = rename_file(temp_dir, file.name, name)
                /\ zip_file' = IF missing = <<>>
                               THEN Append(zip_file, [arcname |-> name,
                                                      data |-> temp_dir'[name]])
                               ELSE zip_file
                /\ results' = Append(results, success_info(file, filled, missing, name))
                /\ recorded_at' = Append(recorded_at, clock)
                /\ pc' = "loop"

\* process_pdfs: placeholders, new name, rename, zip_file.write, results.append
rename_and_archive(file, map) ==
    LET missing == missing_fields(map)
        filled == fill_unknown(map, missing)
        name == new_filename(filled)
    IN  /\ extracted_data' = [kind |-> "object", map |-> filled]
        /\ IF rename_raises(platform, temp_dir, name)
           THEN /\ pc' = "raised"
                /\ UNCHANGED <<temp_dir, zip_file, results, recorded_at>>
           ELSE /\ temp_dir' = rename_file(temp_dir, file.name, name)
                /\ zip_file' = Append(zip_file, [arcname |-> name,
                                                 data |-> temp_dir'[name]])
                /\ results' = Append(results, success_info(file, filled, missing, name))
                /\ recorded_at' = Append(recorded_at, clock)
                /\ pc' = "loop"

RenameAndArchive ==
    /\ pc = "check"
    /\ truthy(extracted_data)
    /\ ~field_check_raises(extracted_data)
    /\ rename_and_archive(uploaded_files[i], extracted_data.map)
    /\ UNCHANGED <<platform, uploaded_files, i, requests, clock, calls, returned,
                   results_data>>
    /\ UNCHANGED san_vars

\* process_pdfs: the loop is over; "return zip_buffer, results"
Return ==
    /\ pc = "loop"
    /\ i = Len(uploaded_files)
    /\ pc' = "returned"
    /\ UNCHANGED <<platform, uploaded_files, i, temp_dir, zip_file, results,
                   extracted_data, requests, clock, calls, returned, recorded_at,
                   results_data>>
    /\ UNCHANGED san_vars

\* the caller builds results_data; .get on a value that is no dict raises
\* AttributeError, caught by the caller's "except Exception"
Display ==
    /\ pc = "returned"
    /\ IF \E k \in 1..Len(results) : results[k].extracted_data.kind # "object"
       THEN /\ pc' = "display_raised"
            /\ UNCHANGED results_data
       ELSE /\ pc' = "displayed"
            /\ results_data' = [k \in 1..Len(results) |-> results_row(results[k])]
    /\ UNCHANGED <<platform, uploaded_files, i, temp_dir, zip_file, results,
                   extracted_data, requests, clock, calls, returned, recorded_at>>
    /\ UNCHANGED san_vars

Next ==
    \/ EmptyInput
    \/ Start
    \/ BeginFile
    \/ ReadFailure
    \/ ReadOk
    \/ ApiError
    \/ ApiResponse
    \/ Sleep
    \/ NoData
    \/ FieldTypeError
    \/ RenameAndArchive
    \/ Return
    \/ Display

Spec == Init /\ [][Next]_vars

\* ------------------------------------------------ sanitizer harness
\* inputs of sanitize_filename: a free prefix, a run of plain characters whose
\* length brackets the limit, and a tail
SanAlphabet == Range(invalid_chars) \cup {"a", "_", " "}
Prefixes == UNION {[1..n -> SanAlphabet] : n \in 0..MaxPrefix}
PadLengths == {0} \cup (MaxNameLen - 2)..(MaxNameLen + 1)
Tails == {<<>>, DotPdf, <<"?", "*">>}
SanInputs == {p \o Pad(n) \o t : p \in Prefixes, n \in PadLengths, t \in Tails}

SanInit ==
    /\ platform = "posix"
    /\ uploaded_files = <<>>
    /\ pc = "san_in"
    /\ i = 0
    /\ temp_dir = EmptyMap
    /\ zip_file = <<>>
    /\ results = <<>>
    /\ extracted_data = EmptyDict
    /\ requests = 0
    /\ clock = 0
    /\ calls = <<>>
    /\ returned = <<>>
    /\ recorded_at = <<>>
    /\ results_data = <<>>
    /\ filename \in SanInputs
    /\ sanitized = <<>>
    /\ resanitized = <<>>

\* sanitize_filename(filename)
Sanitize ==
    /\ pc = "san_in"
    /\ sanitized' = sanitize_filename(filename)
    /\ pc' = "san_out"
    /\ UNCHANGED <<platform, uploaded_files, i, temp_dir, zip_file, results,
                   extracted_data, requests, clock, calls, returned, recorded_at,
                   results_data, filename, resanitized>>

\* sanitize_filename applied to its own result
SanitizeAgain ==
    /\ pc = "san_out"
    /\ resanitized' = sanitize_filename(sanitized)
    /\ pc' = "san_done"
    /\ UNCHANGED <<platform, uploaded_files, i, temp_dir, zip_file, results,
                   extracted_data, requests, clock, calls, returned, recorded_at,
                   results_data, filename, sanitized>>

SanNext ==
    \/ Sanitize
    \/ SanitizeAgain

SpecSanitize == SanInit /\ [][SanNext]_vars

\* ------------------------------------------------------------ claims
Returned == pc \in {"returned_none", "returned", "displayed", "display_raised"}
Completed == pc \in {"returned", "displayed", "display_raised"}
IsError(result) == result.status = "Error: No data extracted"
Archived(result) == ~IsError(result)
ResultIndexes == 1..Len(results)

\* the reply of the service for file k was read, and is no JSON object
NotAnObject(k) ==
    /\ returned[k].outcome \in {"ok", "json_error"}
    /\ \/ ~returned[k].text.json
       \/ returned[k].text.value.kind # "object"

\* the status text for a set of missing fields, written out
ExpectedStatus(missing) ==
    CASE missing = {} -> "Success"
      [] missing = {"Customer"} -> "Partial success (missing: Customer)"
      [] missing = {"Part Number"} -> "Partial success (missing: Part Number)"
      [] missing = {"Description"} -> "Partial success (missing: Description)"
      [] missing = {"Customer", "Part Number"} ->
            "Partial success (missing: Customer, Part Number)"
      [] missing = {"Customer", "Description"} ->
            "Partial success (missing: Customer, Description)"
      [] missing = {"Part Number", "Description"} ->
            "Partial success (missing: Part Number, Description)"
      [] OTHER -> "Partial success (missing: Customer, Part Number, Description)"

EndsWithPdf(name) ==
    /\ Len(name) >= 4
    /\ SubSeq(name, Len(name) - 3, Len(name)) = <<".", "p", "d", "f">>

\* C1: when process_pdfs returns, results has one entry per input file, the
\* k-th entry carrying the k-th file's name, whatever each file's outcome.
C1_OneResultPerFile ==
    Returned =>
        /\ Len(results) = Len(uploaded_files)
        /\ \A k \in ResultIndexes : results[k].original_name = uploaded_files[k].name

C1_Witness ==
    /\ pc = "returned"
    /\ Len(results) = 2
    /\ results[1].original_name # results[2].original_name
    /\ IsError(results[1])
    /\ results[2].status = "Partial success (missing: Customer)"

\* C2: a file for which the Extractor returned an empty record gets status
\* "Error: No data extracted" and an empty new_name, is neither renamed nor
\* archived, and the loop goes on to the next file instead of stopping.
C2_EmptyRecord ==
    /\ \A k \in ResultIndexes :
          ~truthy(returned[k].value) =>
             /\ results[k].status = "Error: No data extracted"
             /\ results[k].new_name = <<>>
             /\ \A e \in 1..Len(zip_file) : zip_file[e].data # uploaded_files[k].data
             /\ (Returned /\ k < Len(uploaded_files)) => Len(calls) > k
    /\ \A n \in DOMAIN temp_dir :
          \/ \E k \in 1..Len(uploaded_files) : uploaded_files[k].name = n
          \/ \E e \in 1..Len(zip_file) : zip_file[e].arcname = n
    /\ pc = "raised" => truthy(extracted_data)

C2_Witness ==
    /\ pc = "returned"
    /\ Len(results) = 2
    /\ returned[1].value = [kind |-> "array", items |-> <<>>]
    /\ IsError(results[1])
    /\ results[2].status = "Success"
    /\ Len(zip_file) = 1

\* C3: when process_pdfs completes, the archive holds exactly one entry for each
\* Success or Partial success result and none for an Error result, named by the
\* result's new_name, in processing order, also when two names coincide.
C3_ArchiveMatchesResults ==
    Completed =>
        LET ok == SelectSeq([k \in ResultIndexes |-> k], LAMBDA k : Archived(results[k]))
        IN  /\ Len(zip_file) = Len(ok)
            /\ \A e \in 1..Len(ok) :
                  /\ zip_file[e].arcname = results[ok[e]].new_name
                  /\ zip_file[e].data = uploaded_files[ok[e]].data

C3_Witness ==
    /\ pc = "returned"
    /\ Len(zip_file) = 2
    /\ zip_file[1].arcname = zip_file[2].arcname
    /\ zip_file[1].data # zip_file[2].data
    /\ results[1].status = "Partial success (missing: Description)"

C5_Sanitize ==
    /\ (pc \in {"san_out", "san_done"}) =>
          /\ Len(sanitized) = IF Len(filename) > 240 THEN 240 ELSE Len(filename)
          /\ \A k \in 1..Len(sanitized) :
                /\ sanitized[k] =
                      IF filename[k] \in {"<", ">", ":", "\"", "/", "\\", "|", "?", "*"}
                      THEN "_" ELSE filename[k]
                /\ sanitized[k] \notin {"<", ">", ":", "\"", "/", "\\", "|", "?", "*"}
          /\ Len(sanitized) <= 240
    /\ pc = "san_done" => resanitized = sanitized

C5_Witness ==
    /\ pc = "san_done"
    /\ Len(filename) = 241
    /\ filename[1] = "\\"
    /\ Len(sanitized) = 240
    /\ sanitized[1] = "_"

\* C6: prompt_claude never raises: a read failure, an error of the API call and
\* an unparsable reply each return the empty mapping; a call issues at most one
\* request, and none after a read failure.
C6_ExtractorNeverRaises ==
    /\ \A k \in 1..Len(returned) :
          /\ returned[k].requests <= 1
          /\ returned[k].outcome = "read_error" => returned[k].requests = 0
          /\ returned[k].outcome \in {"read_error", "api_error", "json_error"} =>
                /\ returned[k].value.kind = "object"
                /\ DOMAIN returned[k].value.map = {}
    /\ requests <= 1
    /\ pc \notin {"read", "request"} => Len(returned) = Len(calls)

C6_Witness ==
    /\ pc = "returned"
    /\ Len(returned) = 2
    /\ returned[1].outcome = "read_error"
    /\ returned[1].requests = 0
    /\ returned[2].outcome = "json_error"
    /\ returned[2].requests = 1

\* C7: a reply of the service that is no JSON object makes the file a total
\* extraction failure with status "Error: No data extracted" and no archive
\* entry, and never aborts the batch.
C7_NonObjectIsNoData ==
    \A k \in 1..Len(returned) :
        NotAnObject(k) =>
            /\ ~(pc = "raised" /\ i = k)
            /\ k \in ResultIndexes =>
                  /\ results[k].status = "Error: No data extracted"
                  /\ \A e \in 1..Len(zip_file) : zip_file[e].data # uploaded_files[k].data

\* C8: process_pdfs does not modify the record the Extractor returned: every
\* result carries it unchanged, and the table shows "" for a field it left
\* absent or empty.
C8_RecordUnmodified ==
    /\ \A k \in ResultIndexes : results[k].extracted_data = returned[k].value
    /\ pc = "displayed" =>
          \A k \in 1..Len(results_data) :
              /\ results_data[k].customer = dict_get(returned[k].value.map, "Customer")
              /\ results_data[k].part_number =
                    dict_get(returned[k].value.map, "Part Number")
              /\ results_data[k].description =
                    dict_get(returned[k].value.map, "Description")

C10_NameEndsWithPdf ==
    /\ \A k \in ResultIndexes : Archived(results[k]) => EndsWithPdf(results[k].new_name)
    /\ \A e \in 1..Len(zip_file) : EndsWithPdf(zip_file[e].arcname)

====
